---- MODULE Spec2Model ----
(***************************************************************************)
(* Model of mermaid-formatter: the line classifier (src/src/parser.ts),    *)
(* the grammar rules (src/src/rules.ts), the renderer                      *)
(* (src/src/formatter.ts) and the formatMermaid and                        *)
(* formatMarkdownMermaidBlocks facades (src/src/index.ts).                 *)
(* Text is modelled by TLA+ strings; a JS string index i is position i+1.  *)
(***************************************************************************)
EXTENDS Integers, Sequences, FiniteSets, TLC

VARIABLES
    input,            \* argument of the current formatMermaid call
    options,          \* FormatOptions argument (absent field = <<>>)
    pc,               \* "start" | "parse" | "format" | "done"
    call,             \* 1 = first call, 2 = call on the first call's result,
                      \* 0 = parse and format called on their own
    input0,           \* argument of the first call
    output1,          \* result of the first call ("" until it returned)
    plines,           \* parse: input.split('\n')
    pi,               \* parse: index of the next line
    statements,       \* parse: statements pushed so far
    diagramType,      \* parse: diagramType
    openBlocks,       \* parse: stack of open keyword blocks
    lines,            \* format: output lines
    fi,               \* format: index of the next statement
    braceBlockDepth,  \* format: braceBlockDepth
    seenDiagramDecl,  \* format: seenDiagramDecl
    lastNonBlankType, \* format: lastNonBlankType ("null" = null)
    depth,            \* format: depth computed for the last emitted statement
    output,           \* result of the current call ("" until it returns)
    markdown,         \* argument of formatMarkdownMermaidBlocks ("" when not called)
    mdpc,             \* "none" | "scan" | "call" | "done"
    mdPos,            \* replace: position where the search for a block resumes
    indent,           \* replace callback: the indent captured before the fence
    result            \* replace: the text produced so far

vars == <<input, options, pc, call, input0, output1, plines, pi, statements,
          diagramType, openBlocks, lines, fi, braceBlockDepth,
          seenDiagramDecl, lastNonBlankType, depth, output, markdown, mdpc,
          mdPos, indent, result>>

\* the state of formatMarkdownMermaidBlocks
mdvars == <<markdown, mdpc, mdPos, indent, result>>

(***************************************************************************)
(* JavaScript string primitives                                            *)
(***************************************************************************)

\* characters matched by \s and removed by String.prototype.trim
WS == {" ", "\t", "\r"}

\* characters matched by \w
WordChars ==
    {"a","b","c","d","e","f","g","h","i","j","k","l","m","n","o","p","q","r",
     "s","t","u","v","w","x","y","z","A","B","C","D","E","F","G","H","I","J",
     "K","L","M","N","O","P","Q","R","S","T","U","V","W","X","Y","Z","0","1",
     "2","3","4","5","6","7","8","9","_"}

\* s[i-1] in JS; "" plays undefined
Ch(s, i) == IF 1 <= i /\ i <= Len(s) THEN SubSeq(s, i, i) ELSE ""

\* s.slice(i-1)
From(s, i) == IF i > Len(s) THEN "" ELSE SubSeq(s, i, Len(s))

StartsWith(s, p) == Len(p) <= Len(s) /\ SubSeq(s, 1, Len(p)) = p

\* does p occur in s at position i
StartsWithAt(s, i, p) ==
    i >= 1 /\ i + Len(p) - 1 <= Len(s) /\ SubSeq(s, i, i + Len(p) - 1) = p

EndsWith(s, p) ==
    Len(p) <= Len(s) /\ SubSeq(s, Len(s) - Len(p) + 1, Len(s)) = p

RECURSIVE TrimStart(_)
TrimStart(s) == IF s # "" /\ Ch(s, 1) \in WS THEN TrimStart(From(s, 2)) ELSE s

RECURSIVE TrimEnd(_)
TrimEnd(s) ==
    IF s # "" /\ Ch(s, Len(s)) \in WS
    THEN TrimEnd(SubSeq(s, 1, Len(s) - 1)) ELSE s

Trim(s) == TrimEnd(TrimStart(s))

\* number of consecutive \s characters of s starting at position i
RECURSIVE WsRun(_, _)
WsRun(s, i) == IF Ch(s, i) \in WS THEN 1 + WsRun(s, i + 1) ELSE 0

\* s.split('\n')
RECURSIVE Split(_)
Split(s) ==
    LET nl == {i \in 1..Len(s) : SubSeq(s, i, i) = "\n"}
    IN  IF nl = {} THEN <<s>>
        ELSE LET n == CHOOSE i \in nl : \A j \in nl : i <= j
             IN  <<SubSeq(s, 1, n - 1)>> \o Split(From(s, n + 1))

\* ls.join('\n')
RECURSIVE Join(_)
Join(ls) ==
    IF Len(ls) = 0 THEN ""
    ELSE IF Len(ls) = 1 THEN ls[1]
    ELSE ls[1] \o "\n" \o Join(Tail(ls))

\* s.repeat(n)
RECURSIVE Repeat(_, _)
Repeat(s, n) == IF n <= 0 THEN "" ELSE s \o Repeat(s, n - 1)

Min(S) == CHOOSE x \in S : \A y \in S : x <= y

Max(S) == CHOOSE x \in S : \A y \in S : x >= y

\* /^kw\b/.test(line), kw ending in a word character
KeywordB(line, kw) ==
    StartsWith(line, kw) /\ Ch(line, Len(kw) + 1) \notin WordChars

(***************************************************************************)
(* rules.ts                                                                *)
(***************************************************************************)

Directions == {"TD", "TB", "BT", "LR", "RL"}

\* DIAGRAM_PATTERNS, in order: keyword, optional tokens after \s+, type
DIAGRAM_PATTERNS ==
    << [kw |-> "sequenceDiagram",    opt |-> {},           type |-> "sequenceDiagram"],
       [kw |-> "flowchart",          opt |-> Directions,   type |-> "flowchart"],
       [kw |-> "graph",              opt |-> Directions,   type |-> "graph"],
       [kw |-> "classDiagram",       opt |-> {},           type |-> "classDiagram"],
       [kw |-> "stateDiagram-v2",    opt |-> {},           type |-> "stateDiagram-v2"],
       [kw |-> "stateDiagram",       opt |-> {},           type |-> "stateDiagram"],
       [kw |-> "erDiagram",          opt |-> {},           type |-> "erDiagram"],
       [kw |-> "journey",            opt |-> {},           type |-> "journey"],
       [kw |-> "gantt",              opt |-> {},           type |-> "gantt"],
       [kw |-> "pie",                opt |-> {"showData"}, type |-> "pie"],
       [kw |-> "quadrantChart",      opt |-> {},           type |-> "quadrantChart"],
       [kw |-> "requirementDiagram", opt |-> {},           type |-> "requirementDiagram"],
       [kw |-> "gitGraph",           opt |-> {},           type |-> "gitGraph"],
       [kw |-> "mindmap",            opt |-> {},           type |-> "mindmap"],
       [kw |-> "timeline",           opt |-> {},           type |-> "timeline"],
       [kw |-> "sankey-beta",        opt |-> {},           type |-> "sankey-beta"],
       [kw |-> "xychart-beta",       opt |-> {},           type |-> "xychart-beta"],
       [kw |-> "block-beta",         opt |-> {},           type |-> "block-beta"],
       [kw |-> "architecture-beta",  opt |-> {},           type |-> "architecture-beta"] >>

\* pattern.test(line) for /^kw(\s+(t1|t2|...))?\b/
PatternTest(line, p) ==
    /\ StartsWith(line, p.kw)
    /\ \/ Ch(line, Len(p.kw) + 1) \notin WordChars
       \/ \E t \in p.opt :
            LET k == WsRun(line, Len(p.kw) + 1)
                a == Len(p.kw) + k + 1
            IN  /\ k >= 1
                /\ StartsWithAt(line, a, t)
                /\ Ch(line, a + Len(t)) \notin WordChars

\* matchDiagramType: first pattern that matches, "null" when none does
matchDiagramType(line) ==
    LET hits == {i \in 1..Len(DIAGRAM_PATTERNS) : PatternTest(line, DIAGRAM_PATTERNS[i])}
    IN  IF hits = {} THEN "null"
        ELSE DIAGRAM_PATTERNS[CHOOSE i \in hits : \A j \in hits : i <= j].type

BLOCK_KEYWORDS ==
    <<"critical", "alt", "loop", "par", "opt", "break", "rect", "subgraph">>

BRACE_BLOCK_KEYWORDS == <<"state", "class", "namespace">>

INDENT_SENSITIVE_DIAGRAMS == {"mindmap", "timeline"}

\* isIndentSensitive with timeline left out of the list
isIndentSensitive_OnlyMindmap(type) == type = "mindmap"

isIndentSensitive(type) == type \in INDENT_SENSITIVE_DIAGRAMS

\* matchBlockKeyword: first keyword kw with /^kw\b/, "null" when none
matchBlockKeyword(line) ==
    LET hits == {i \in 1..Len(BLOCK_KEYWORDS) : KeywordB(line, BLOCK_KEYWORDS[i])}
    IN  IF hits = {} THEN "null"
        ELSE BLOCK_KEYWORDS[CHOOSE i \in hits : \A j \in hits : i <= j]

\* first-match selection among ranked regex alternatives: R is a set of
\* <<rank, result>> pairs, result <<>> when the alternative fails
PickMin(R) ==
    LET ok == {x \in R : x[2] # <<>>}
    IN  IF ok = {} THEN <<>> ELSE CHOOSE x \in ok : \A y \in ok : x[1] <= y[1]

PickMax(R) ==
    LET ok == {x \in R : x[2] # <<>>}
    IN  IF ok = {} THEN <<>> ELSE CHOOSE x \in ok : \A y \in ok : x[1] >= y[1]

Second(pair) == IF pair = <<>> THEN <<>> ELSE pair[2]

\* is s matched by \s*\{\s*$
IsBraceTail(s) == Trim(s) = "{"

\* (.+?)\s*\{\s*$ with the name starting at a: the name is lazy (shortest first);
\* <<>> when nothing matches, else <<match[1].trim()>>
BraceNameAt(line, a) ==
    LET ends == {e \in a..Len(line) : IsBraceTail(From(line, e + 1))}
    IN  IF ends = {} THEN <<>> ELSE <<Trim(SubSeq(line, a, Min(ends)))>>

\* /^kw\s+(.+?)\s*\{\s*$/ on line: \s+ is greedy (the longest run first)
BraceMatch(line, kw) ==
    IF ~StartsWith(line, kw) THEN <<>>
    ELSE Second(PickMax({<<k, BraceNameAt(line, Len(kw) + k + 1)>> :
                            k \in 1..WsRun(line, Len(kw) + 1)}))

BraceResult(kind, m) == IF m = <<>> THEN <<>> ELSE <<[kind |-> kind, name |-> m[1]]>>

\* matchBraceBlockStart: <<>> for null, else <<[kind, name]>>
matchBraceBlockStart(line) ==
    Second(PickMin({<<i, BraceResult(BRACE_BLOCK_KEYWORDS[i],
                                     BraceMatch(line, BRACE_BLOCK_KEYWORDS[i]))>> :
                       i \in 1..Len(BRACE_BLOCK_KEYWORDS)}))

\* the alternatives with each short operator tried before the longer ones
ARROWS_ShortFirst ==
    <<"->", "-->", "->>", "-->>", "<<->>", "<<-->>", "-x", "--x", "-)", "--)">>

\* the operator alternatives of ARROW_PATTERN, in the order the regex tries them
ARROWS == <<"<<-->>", "<<->>", "-->>", "->>", "-->", "->", "--x", "-x", "--)", "-)">>

\* (.+?)\s*: with the target starting at r: the lengths t >= 1 of a target after
\* which only \s* precedes a colon
ToLens(line, r) ==
    {t \in 1..(Len(line) - r + 1) : Ch(line, r + t + WsRun(line, r + t)) = ":"}

\* match[3] and match[4] for a target of length t at r, its colon at c
TailResult(line, r, t, c) ==
    <<[to |-> SubSeq(line, r, r + t - 1),
       message |-> From(line, c + 1 + WsRun(line, c + 1))]>>

\* (.+?)\s*:\s*(.*)?$ with the target starting at r: the target is lazy
TailAt(line, r, ts) ==
    IF ts = {} THEN <<>>
    ELSE TailResult(line, r, Min(ts), r + Min(ts) + WsRun(line, r + Min(ts)))

\* \s*(.+?)\s*:\s*(.*)?$ from position q: \s* is greedy
ArrowTail(line, q) ==
    Second(PickMax({<<k, TailAt(line, q + k, ToLens(line, q + k))>> :
                       k \in 0..WsRun(line, q)}))

WithArrow(arrow, tail) ==
    IF tail = <<>> THEN <<>>
    ELSE <<[arrow |-> arrow, to |-> tail[1].to, message |-> tail[1].message]>>

\* alternative op, with ([+-] taken, suf = 1) or without it, at position p
ArrowCand(line, p, op, suf) ==
    IF /\ StartsWithAt(line, p, op)
       /\ suf = 1 => Ch(line, p + Len(op)) \in {"+", "-"}
    THEN WithArrow(SubSeq(line, p, p + Len(op) + suf - 1),
                   ArrowTail(line, p + Len(op) + suf))
    ELSE <<>>

\* (op[+-]?)... at position p: earlier alternative first, [+-] taken first
ArrowAt(line, p) ==
    Second(PickMin({<<2 * c[1] - c[2], ArrowCand(line, p, ARROWS[c[1]], c[2])>> :
                       c \in (1..Len(ARROWS)) \X {0, 1}}))

\* ^(.+?)\s*(op) with the source of length f: \s* is greedy
ArrowFrom(line, f) ==
    Second(PickMax({<<k, ArrowAt(line, f + k + 1)>> : k \in 0..WsRun(line, f + 1)}))

WithFrom(line, pair) ==
    IF pair = <<>> THEN <<>>
    ELSE <<[from |-> SubSeq(line, 1, pair[1]), arrow |-> pair[2][1].arrow,
            to |-> pair[2][1].to, message |-> pair[2][1].message]>>

\* line.match(ARROW_PATTERN): the source is lazy; <<>> when there is no match
ArrowPatternMatch(line) ==
    WithFrom(line, PickMin({<<f, ArrowFrom(line, f)>> : f \in 1..Len(line)}))

\* matchArrowMessage without the rejection of a message that starts with ::
ArrowResult_NoClassCheck(match) ==
    IF match = <<>> THEN <<>>
    ELSE <<[from    |-> Trim(match[1].from),
            arrow   |-> match[1].arrow,
            to      |-> Trim(match[1].to),
            message |-> Trim(match[1].message)]>>

\* the result of matchArrowMessage for the regex match; <<>> for null
ArrowResult(match) ==
    IF match = <<>> THEN <<>>
    ELSE IF StartsWith(match[1].message, "::") THEN <<>>
    ELSE <<[from    |-> Trim(match[1].from),
            arrow   |-> match[1].arrow,
            to      |-> Trim(match[1].to),
            message |-> Trim(match[1].message)]>>

matchArrowMessage(line) == ArrowResult(ArrowPatternMatch(line))

(***************************************************************************)
(* parser.ts                                                               *)
(***************************************************************************)

\* a Statement; a field the variant does not carry (or undefined) is ""
Stmt(type, content) ==
    [type |-> type, content |-> content, diagramType |-> "", blockKind |-> "",
     label |-> "", name |-> "", from |-> "", arrow |-> "", to |-> "",
     message |-> ""]

\* topBlockKind
topBlockKind(blocks) ==
    IF Len(blocks) > 0 THEN blocks[Len(blocks)] ELSE "null"

\* /^note\b/i
NoteTest(line) ==
    /\ Ch(line, 1) \in {"n", "N"}
    /\ Ch(line, 2) \in {"o", "O"}
    /\ Ch(line, 3) \in {"t", "T"}
    /\ Ch(line, 4) \in {"e", "E"}
    /\ Ch(line, 5) \notin WordChars

\* parseLine when a declaration is accepted whatever the current type
parseLine_AnyDecl(trimmed, currentDiagramType, blocks) ==
    IF trimmed = "" THEN Stmt("blank-line", "")
    ELSE IF StartsWith(trimmed, "%%") /\ ~StartsWith(trimmed, "%%{")
    THEN Stmt("comment", trimmed)
    ELSE IF StartsWith(trimmed, "%%{") THEN Stmt("directive", trimmed)
    ELSE IF matchDiagramType(trimmed) # "null"
    THEN [Stmt("diagram-decl", trimmed) EXCEPT !.diagramType = matchDiagramType(trimmed)]
    ELSE IF trimmed = "end"
    THEN (IF Len(blocks) > 0 THEN Stmt("block-end", "end")
          ELSE Stmt("generic-line", trimmed))
    ELSE IF trimmed = "}" THEN Stmt("brace-block-end", "}")
    ELSE IF KeywordB(trimmed, "option") /\ topBlockKind(blocks) = "critical"
    THEN [Stmt("block-option", trimmed) EXCEPT !.label = Trim(From(trimmed, 7))]
    ELSE IF KeywordB(trimmed, "else") /\ topBlockKind(blocks) = "alt"
    THEN [Stmt("block-else", trimmed) EXCEPT !.label = Trim(From(trimmed, 5))]
    ELSE IF KeywordB(trimmed, "and") /\ topBlockKind(blocks) = "par"
    THEN [Stmt("block-and", trimmed) EXCEPT !.label = Trim(From(trimmed, 4))]
    ELSE IF matchBlockKeyword(trimmed) # "null"
    THEN LET blockKind == matchBlockKeyword(trimmed)
         IN  [Stmt("block-start", trimmed) EXCEPT
                 !.blockKind = blockKind,
                 !.label = Trim(From(trimmed, Len(blockKind) + 1))]
    ELSE IF matchBraceBlockStart(trimmed) # <<>>
    THEN LET braceBlock == matchBraceBlockStart(trimmed)[1]
         IN  [Stmt("brace-block-start", trimmed) EXCEPT
                 !.blockKind = braceBlock.kind, !.name = braceBlock.name]
    ELSE IF KeywordB(trimmed, "participant") \/ KeywordB(trimmed, "actor")
    THEN Stmt("participant", trimmed)
    ELSE IF NoteTest(trimmed) THEN Stmt("note", trimmed)
    ELSE IF currentDiagramType = "sequenceDiagram" /\ matchArrowMessage(trimmed) # <<>>
    THEN LET arrowMatch == matchArrowMessage(trimmed)[1]
         IN  [Stmt("arrow-message", trimmed) EXCEPT
                 !.from = arrowMatch.from, !.arrow = arrowMatch.arrow,
                 !.to = arrowMatch.to, !.message = arrowMatch.message]
    ELSE Stmt("generic-line", trimmed)

\* parseLine when the arrow rule is tried in every dialect
parseLine_ArrowAnyDialect(trimmed, currentDiagramType, blocks) ==
    IF trimmed = "" THEN Stmt("blank-line", "")
    ELSE IF StartsWith(trimmed, "%%") /\ ~StartsWith(trimmed, "%%{")
    THEN Stmt("comment", trimmed)
    ELSE IF StartsWith(trimmed, "%%{") THEN Stmt("directive", trimmed)
    ELSE IF matchDiagramType(trimmed) # "null" /\ currentDiagramType = "unknown"
    THEN [Stmt("diagram-decl", trimmed) EXCEPT !.diagramType = matchDiagramType(trimmed)]
    ELSE IF trimmed = "end"
    THEN (IF Len(blocks) > 0 THEN Stmt("block-end", "end")
          ELSE Stmt("generic-line", trimmed))
    ELSE IF trimmed = "}" THEN Stmt("brace-block-end", "}")
    ELSE IF KeywordB(trimmed, "option") /\ topBlockKind(blocks) = "critical"
    THEN [Stmt("block-option", trimmed) EXCEPT !.label = Trim(From(trimmed, 7))]
    ELSE IF KeywordB(trimmed, "else") /\ topBlockKind(blocks) = "alt"
    THEN [Stmt("block-else", trimmed) EXCEPT !.label = Trim(From(trimmed, 5))]
    ELSE IF KeywordB(trimmed, "and") /\ topBlockKind(blocks) = "par"
    THEN [Stmt("block-and", trimmed) EXCEPT !.label = Trim(From(trimmed, 4))]
    ELSE IF matchBlockKeyword(trimmed) # "null"
    THEN LET blockKind == matchBlockKeyword(trimmed)
         IN  [Stmt("block-start", trimmed) EXCEPT
                 !.blockKind = blockKind,
                 !.label = Trim(From(trimmed, Len(blockKind) + 1))]
    ELSE IF matchBraceBlockStart(trimmed) # <<>>
    THEN LET braceBlock == matchBraceBlockStart(trimmed)[1]
         IN  [Stmt("brace-block-start", trimmed) EXCEPT
                 !.blockKind = braceBlock.kind, !.name = braceBlock.name]
    ELSE IF KeywordB(trimmed, "participant") \/ KeywordB(trimmed, "actor")
    THEN Stmt("participant", trimmed)
    ELSE IF NoteTest(trimmed) THEN Stmt("note", trimmed)
    ELSE IF matchArrowMessage(trimmed) # <<>>
    THEN LET arrowMatch == matchArrowMessage(trimmed)[1]
         IN  [Stmt("arrow-message", trimmed) EXCEPT
                 !.from = arrowMatch.from, !.arrow = arrowMatch.arrow,
                 !.to = arrowMatch.to, !.message = arrowMatch.message]
    ELSE Stmt("generic-line", trimmed)

\* parseLine(trimmed, currentDiagramType, openBlocks)
parseLine(trimmed, currentDiagramType, blocks) ==
    IF trimmed = "" THEN Stmt("blank-line", "")
    ELSE IF StartsWith(trimmed, "%%") /\ ~StartsWith(trimmed, "%%{")
    THEN Stmt("comment", trimmed)
    ELSE IF StartsWith(trimmed, "%%{") THEN Stmt("directive", trimmed)
    ELSE IF matchDiagramType(trimmed) # "null" /\ currentDiagramType = "unknown"
    THEN [Stmt("diagram-decl", trimmed) EXCEPT !.diagramType = matchDiagramType(trimmed)]
    ELSE IF trimmed = "end"
    THEN (IF Len(blocks) > 0 THEN Stmt("block-end", "end")
          ELSE Stmt("generic-line", trimmed))
    ELSE IF trimmed = "}" THEN Stmt("brace-block-end", "}")
    ELSE IF KeywordB(trimmed, "option") /\ topBlockKind(blocks) = "critical"
    THEN [Stmt("block-option", trimmed) EXCEPT !.label = Trim(From(trimmed, 7))]
    ELSE IF KeywordB(trimmed, "else") /\ topBlockKind(blocks) = "alt"
    THEN [Stmt("block-else", trimmed) EXCEPT !.label = Trim(From(trimmed, 5))]
    ELSE IF KeywordB(trimmed, "and") /\ topBlockKind(blocks) = "par"
    THEN [Stmt("block-and", trimmed) EXCEPT !.label = Trim(From(trimmed, 4))]
    ELSE IF matchBlockKeyword(trimmed) # "null"
    THEN LET blockKind == matchBlockKeyword(trimmed)
         IN  [Stmt("block-start", trimmed) EXCEPT
                 !.blockKind = blockKind,
                 !.label = Trim(From(trimmed, Len(blockKind) + 1))]
    ELSE IF matchBraceBlockStart(trimmed) # <<>>
    THEN LET braceBlock == matchBraceBlockStart(trimmed)[1]
         IN  [Stmt("brace-block-start", trimmed) EXCEPT
                 !.blockKind = braceBlock.kind, !.name = braceBlock.name]
    ELSE IF KeywordB(trimmed, "participant") \/ KeywordB(trimmed, "actor")
    THEN Stmt("participant", trimmed)
    ELSE IF NoteTest(trimmed) THEN Stmt("note", trimmed)
    ELSE IF currentDiagramType = "sequenceDiagram" /\ matchArrowMessage(trimmed) # <<>>
    THEN LET arrowMatch == matchArrowMessage(trimmed)[1]
         IN  [Stmt("arrow-message", trimmed) EXCEPT
                 !.from = arrowMatch.from, !.arrow = arrowMatch.arrow,
                 !.to = arrowMatch.to, !.message = arrowMatch.message]
    ELSE Stmt("generic-line", trimmed)

\* the stack when a brace block is pushed like a keyword block
PushPop_BraceToo(blocks, statement) ==
    IF statement.type \in {"block-start", "brace-block-start"}
    THEN Append(blocks, statement.blockKind)
    ELSE IF statement.type = "block-end" /\ Len(blocks) > 0
    THEN SubSeq(blocks, 1, Len(blocks) - 1)
    ELSE blocks

\* the openBlocks stack after the statement was pushed (parse, lines 34-38)
PushPop(blocks, statement) ==
    IF statement.type = "block-start" THEN Append(blocks, statement.blockKind)
    ELSE IF statement.type = "block-end" /\ Len(blocks) > 0
    THEN SubSeq(blocks, 1, Len(blocks) - 1)
    ELSE blocks

\* detectDiagramType: the type of the first line, other than blank lines and
\* lines starting with %%, that matches a diagram pattern
RECURSIVE DetectFrom(_, _)
DetectFrom(ls, i) ==
    IF i > Len(ls) THEN "unknown"
    ELSE LET trimmed == Trim(ls[i])
         IN  IF trimmed = "" \/ StartsWith(trimmed, "%%") THEN DetectFrom(ls, i + 1)
             ELSE IF matchDiagramType(trimmed) # "null" THEN matchDiagramType(trimmed)
             ELSE DetectFrom(ls, i + 1)

\* detectDiagramType that gives up at the first line with content
detectDiagramType_FirstContent(text) ==
    LET ls   == Split(text)
        cont == {i \in 1..Len(ls) :
                   Trim(ls[i]) # "" /\ ~StartsWith(Trim(ls[i]), "%%")}
    IN  IF cont = {} \/ matchDiagramType(Trim(ls[Min(cont)])) = "null"
        THEN "unknown"
        ELSE matchDiagramType(Trim(ls[Min(cont)]))

detectDiagramType(text) == DetectFrom(Split(text), 1)

(***************************************************************************)
(* formatter.ts                                                            *)
(***************************************************************************)

DefaultIndentSize == 4

\* s.replace(/  +/g, ' ')
RECURSIVE CollapseSpaces(_)
CollapseSpaces(s) ==
    IF s = "" THEN ""
    ELSE IF Ch(s, 1) = " " /\ Ch(s, 2) = " " THEN CollapseSpaces(From(s, 2))
    ELSE Ch(s, 1) \o CollapseSpaces(From(s, 2))

\* the inner while loop of normalizeBracketPair: <<j, depth>> when it stops
RECURSIVE ScanClose(_, _, _, _, _)
ScanClose(content, open, close, j, d) ==
    IF j > Len(content) \/ d = 0 THEN <<j, d>>
    ELSE ScanClose(content, open, close, j + 1,
                   IF Ch(content, j) = open THEN d + 1
                   ELSE IF Ch(content, j) = close THEN d - 1
                   ELSE d)

\* the outer while loop of normalizeBracketPair from position i
RECURSIVE BracketFrom(_, _, _, _)
BracketFrom(content, open, close, i) ==
    IF i > Len(content) THEN ""
    ELSE LET sc == ScanClose(content, open, close, i + 1, 1)
         IN  IF Ch(content, i) = open /\ Ch(content, i + 1) = " " /\ sc[2] = 0
             THEN open \o Trim(SubSeq(content, i + 1, sc[1] - 2)) \o close
                       \o BracketFrom(content, open, close, sc[1])
             ELSE Ch(content, i) \o BracketFrom(content, open, close, i + 1)

normalizeBracketPair(content, open, close) == BracketFrom(content, open, close, 1)

\* content.replace(/\|\s+([^|]*?)\s*\|/g, (_, inner) => `|${inner.trim()}|`)
RECURSIVE PipeFrom(_, _)
PipeFrom(content, i) ==
    IF i > Len(content) THEN ""
    ELSE LET closers == {q \in (i + 1)..Len(content) : Ch(content, q) = "|"}
         IN  IF Ch(content, i) = "|" /\ Ch(content, i + 1) \in WS /\ closers # {}
             THEN "|" \o Trim(SubSeq(content, i + 1, Min(closers) - 1)) \o "|"
                      \o PipeFrom(content, Min(closers) + 1)
             ELSE Ch(content, i) \o PipeFrom(content, i + 1)

normalizePipes(content) == PipeFrom(content, 1)

\* normalizeContent: the CONTENT_NORMALIZERS pipeline, in order
normalizeContent(content) ==
    normalizePipes(
      normalizeBracketPair(
        normalizeBracketPair(
          normalizeBracketPair(CollapseSpaces(content), "[", "]"),
          "{", "}"),
        "(", ")"))

\* the statement types that have an entry in STATEMENT_FORMATTERS
FORMATTER_TYPES ==
    {"block-start", "brace-block-start", "block-option", "block-else",
     "arrow-message"}

\* STATEMENT_FORMATTERS[stmt.type](stmt)
StatementFormatter(stmt) ==
    CASE stmt.type = "block-start" ->
           IF stmt.label # "" THEN stmt.blockKind \o " " \o stmt.label
           ELSE stmt.blockKind
      [] stmt.type = "brace-block-start" ->
           stmt.blockKind \o " " \o stmt.name \o " {"
      [] stmt.type = "block-option" ->
           IF stmt.label # "" THEN "option " \o stmt.label ELSE "option"
      [] stmt.type = "block-else" ->
           IF stmt.label # "" THEN "else " \o stmt.label ELSE "else"
      [] stmt.type = "arrow-message" ->
           LET base == stmt.from \o " " \o stmt.arrow \o " " \o stmt.to
           IN  IF stmt.message = "" THEN base \o ":"
               ELSE base \o ": " \o CollapseSpaces(stmt.message)

\* the normalized types with comments among them
NORMALIZABLE_TYPES_WithComment ==
    {"generic-line", "participant", "note", "comment"}

NORMALIZABLE_TYPES == {"generic-line", "participant", "note"}

\* formatStatement
formatStatement(stmt) ==
    IF stmt.type \in FORMATTER_TYPES THEN StatementFormatter(stmt)
    ELSE IF stmt.type \in NORMALIZABLE_TYPES THEN normalizeContent(stmt.content)
    ELSE stmt.content

COLUMN_ZERO_TYPES ==
    {"diagram-decl", "directive", "block-start", "block-option", "block-else",
     "block-end"}

\* getIndentDepth when the depth of a brace-block-start counts the block it
\* opens
getIndentDepth_OpenerInside(stmt, seen, braceDepth) ==
    IF stmt.type = "diagram-decl" \/ stmt.type = "directive" THEN 0
    ELSE IF stmt.type \in COLUMN_ZERO_TYPES THEN braceDepth
    ELSE IF stmt.type = "brace-block-start" THEN braceDepth + 1
    ELSE IF stmt.type = "brace-block-end" THEN braceDepth
    ELSE IF braceDepth > 0 THEN braceDepth
    ELSE IF seen THEN 1
    ELSE 0

\* getIndentDepth without its first rule: declarations and directives are
\* placed like the keyword-block lines
getIndentDepth_NoColumnZero(stmt, seen, braceDepth) ==
    IF stmt.type \in COLUMN_ZERO_TYPES THEN braceDepth
    ELSE IF stmt.type = "brace-block-start" \/ stmt.type = "brace-block-end"
    THEN braceDepth
    ELSE IF braceDepth > 0 THEN braceDepth
    ELSE IF seen THEN 1
    ELSE 0

\* getIndentDepth(stmt, seenDiagramDecl, braceBlockDepth)
getIndentDepth(stmt, seen, braceDepth) ==
    IF stmt.type = "diagram-decl" \/ stmt.type = "directive" THEN 0
    ELSE IF stmt.type \in COLUMN_ZERO_TYPES THEN braceDepth
    ELSE IF stmt.type = "brace-block-start" \/ stmt.type = "brace-block-end"
    THEN braceDepth
    ELSE IF braceDepth > 0 THEN braceDepth
    ELSE IF seen THEN 1
    ELSE 0

BLANK_BEFORE_BLOCK_TYPES ==
    {"diagram-decl", "generic-line", "arrow-message", "participant", "note",
     "block-end", "brace-block-end"}

\* shouldInsertBlankBefore that forgets the brace blocks
shouldInsertBlankBefore_KeywordOnly(stmt, last) ==
    IF last = "null" THEN FALSE
    ELSE IF stmt.type = "block-start" THEN last \in BLANK_BEFORE_BLOCK_TYPES
    ELSE FALSE

\* shouldInsertBlankBefore(stmt, lastNonBlankType)
shouldInsertBlankBefore(stmt, last) ==
    IF last = "null" THEN FALSE
    ELSE IF stmt.type = "block-start" \/ stmt.type = "brace-block-start"
    THEN last \in BLANK_BEFORE_BLOCK_TYPES
    ELSE FALSE

\* opts = { ...DEFAULT_OPTIONS, ...options }
MergedOptions(o) ==
    [indentSize |-> IF o.indentSize = <<>> THEN DefaultIndentSize ELSE o.indentSize[1],
     useTabs    |-> IF o.useTabs = <<>> THEN FALSE ELSE o.useTabs[1]]

\* indentStr that ignores useTabs
IndentStr_SpacesOnly(o) == Repeat(" ", MergedOptions(o).indentSize)

\* indentStr = opts.useTabs ? '\t' : ' '.repeat(opts.indentSize)
IndentStr(o) ==
    IF MergedOptions(o).useTabs THEN "\t" ELSE Repeat(" ", MergedOptions(o).indentSize)

\* the loop of format without the condition that collapses consecutive blanks
SkipBlank_NoCollapse(last, i, n, out) ==
    \/ i = n
    \/ Len(out) = 0

\* does the loop of format skip the blank-line statement at index i
\* (the two `continue`s of lines 187-195)
SkipBlank(last, i, n, out) ==
    \/ last = "blank-line"
    \/ i = n
    \/ Len(out) = 0

\* the line pushed for a statement when a comment leaves an empty line
FormattedLine_NoComment(stmt, d, o) ==
    IF stmt.type = "comment" THEN ""
    ELSE IF d > 0 THEN Repeat(IndentStr(o), d) \o formatStatement(stmt)
    ELSE formatStatement(stmt)

\* the line pushed for a statement: indentStr.repeat(depth) + content
FormattedLine(stmt, d, o) ==
    IF d > 0 THEN Repeat(IndentStr(o), d) \o formatStatement(stmt)
    ELSE formatStatement(stmt)

(***************************************************************************)
(* index.ts                                                                *)
(***************************************************************************)

\* ensureTrailingNewline
ensureTrailingNewline(text) == IF EndsWith(text, "\n") THEN text ELSE text \o "\n"

(***************************************************************************)
(* Inputs                                                                  *)
(***************************************************************************)

\* longest input, in lines
MaxLines == 3

\* longest input, in lines, where runs of blank lines are explored
MaxRunLines == 4

\* longest input, in lines, where nested brace blocks are explored
MaxBraceLines == 4

\* the texts of 1..n lines over the line vocabulary V
RECURSIVE Texts(_, _)
Texts(V, n) ==
    IF n <= 1 THEN V
    ELSE LET T == Texts(V, n - 1) IN T \cup {t \o "\n" \o l : t \in T, l \in V}

NoOptions == [indentSize |-> <<>>, useTabs |-> <<>>]

\* the state before the first call of formatMermaid(text, o)
InitWith(text, o) ==
    /\ input = text
    /\ options = o
    /\ pc = "start"
    /\ call = 1
    /\ input0 = text
    /\ output1 = ""
    /\ plines = <<>>
    /\ pi = 1
    /\ statements = <<>>
    /\ diagramType = "unknown"
    /\ openBlocks = <<>>
    /\ lines = <<>>
    /\ fi = 1
    /\ braceBlockDepth = 0
    /\ seenDiagramDecl = FALSE
    /\ lastNonBlankType = "null"
    /\ depth = 0
    /\ output = ""
    /\ markdown = ""
    /\ mdpc = "none"
    /\ mdPos = 1
    /\ indent = ""
    /\ result = ""

(***************************************************************************)
(* formatMermaid, one action per step                                      *)
(***************************************************************************)

\* formatMermaid: the diagram is indent-sensitive, the input is returned
PassThrough ==
    /\ pc = "start"
    /\ isIndentSensitive(detectDiagramType(input))
    /\ output' = ensureTrailingNewline(input)
    /\ pc' = "done"
    /\ UNCHANGED mdvars
    /\ UNCHANGED <<input, options, call, input0, output1, plines, pi,
                   statements, diagramType, openBlocks, lines, fi,
                   braceBlockDepth, seenDiagramDecl, lastNonBlankType, depth>>

\* formatMermaid calls parse: the input is split, the loop state initialised
ParseStart ==
    /\ pc = "start"
    /\ ~isIndentSensitive(detectDiagramType(input))
    /\ plines' = Split(input)
    /\ pi' = 1
    /\ statements' = <<>>
    /\ diagramType' = "unknown"
    /\ openBlocks' = <<>>
    /\ pc' = "parse"
    /\ UNCHANGED mdvars
    /\ UNCHANGED <<input, options, call, input0, output1, lines, fi,
                   braceBlockDepth, seenDiagramDecl, lastNonBlankType, depth,
                   output>>

\* the body of the loop of parse when a blank-line statement is not pushed
PushStatement_SkipBlank(statement) ==
    /\ diagramType' =
         IF statement.type = "diagram-decl" /\ diagramType = "unknown"
         THEN statement.diagramType ELSE diagramType
    /\ statements' = IF statement.type = "blank-line" THEN statements
                     ELSE Append(statements, statement)
    /\ openBlocks' = PushPop(openBlocks, statement)

\* the body of the loop of parse for the statement parseLine returned
PushStatement(statement) ==
    /\ diagramType' =
         IF statement.type = "diagram-decl" /\ diagramType = "unknown"
         THEN statement.diagramType ELSE diagramType
    /\ statements' = Append(statements, statement)
    /\ openBlocks' = PushPop(openBlocks, statement)

\* the iteration of parse when the loop does not move on to the next line
ParseLine_NoAdvance ==
    /\ pc = "parse"
    /\ pi <= Len(plines)
    /\ PushStatement(parseLine(Trim(plines[pi]), diagramType, openBlocks))
    /\ pi' = pi
    /\ UNCHANGED mdvars
    /\ UNCHANGED <<input, options, pc, call, input0, output1, plines, lines,
                   fi, braceBlockDepth, seenDiagramDecl, lastNonBlankType,
                   depth, output>>

\* the iteration of parse when the line is classified untrimmed
ParseLine_NoTrim ==
    /\ pc = "parse"
    /\ pi <= Len(plines)
    /\ PushStatement(parseLine(plines[pi], diagramType, openBlocks))
    /\ pi' = pi + 1
    /\ UNCHANGED mdvars
    /\ UNCHANGED <<input, options, pc, call, input0, output1, plines, lines,
                   fi, braceBlockDepth, seenDiagramDecl, lastNonBlankType,
                   depth, output>>

\* one iteration of the loop of parse
ParseLine ==
    /\ pc = "parse"
    /\ pi <= Len(plines)
    /\ PushStatement(parseLine(Trim(plines[pi]), diagramType, openBlocks))
    /\ pi' = pi + 1
    /\ UNCHANGED mdvars
    /\ UNCHANGED <<input, options, pc, call, input0, output1, plines, lines,
                   fi, braceBlockDepth, seenDiagramDecl, lastNonBlankType,
                   depth, output>>

\* parse returns the Diagram and format starts on it
FormatStart ==
    /\ pc = "parse"
    /\ pi > Len(plines)
    /\ lines' = <<>>
    /\ fi' = 1
    /\ braceBlockDepth' = 0
    /\ seenDiagramDecl' = FALSE
    /\ lastNonBlankType' = "null"
    /\ depth' = 0
    /\ pc' = "format"
    /\ UNCHANGED mdvars
    /\ UNCHANGED <<input, options, call, input0, output1, plines, pi,
                   statements, diagramType, openBlocks, output>>

\* one iteration of the loop of format on a blank-line statement
FormatBlank ==
    /\ pc = "format"
    /\ fi <= Len(statements)
    /\ statements[fi].type = "blank-line"
    /\ IF SkipBlank(lastNonBlankType, fi, Len(statements), lines)
       THEN UNCHANGED <<lines, lastNonBlankType>>
       ELSE /\ lines' = Append(lines, "")
            /\ lastNonBlankType' = "blank-line"
    /\ fi' = fi + 1
    /\ UNCHANGED mdvars
    /\ UNCHANGED <<input, options, pc, call, input0, output1, plines, pi,
                   statements, diagramType, openBlocks, braceBlockDepth,
                   seenDiagramDecl, depth, output>>

\* the iteration of format when the brace depth is decremented at every
\* brace-block-end, also at depth 0
FormatStatement_NoClamp ==
    /\ pc = "format"
    /\ fi <= Len(statements)
    /\ statements[fi].type # "blank-line"
    /\ LET stmt   == statements[fi]
           blank  == /\ shouldInsertBlankBefore(stmt, lastNonBlankType)
                     /\ Len(lines) > 0
                     /\ lines[Len(lines)] # ""
           braces == IF stmt.type = "brace-block-end"
                     THEN braceBlockDepth - 1 ELSE braceBlockDepth
           d      == getIndentDepth(stmt, seenDiagramDecl, braces)
       IN  /\ lines' = (IF blank THEN Append(lines, "") ELSE lines)
                           \o <<FormattedLine(stmt, d, options)>>
           /\ depth' = d
           /\ seenDiagramDecl' = (seenDiagramDecl \/ stmt.type = "diagram-decl")
           /\ braceBlockDepth' =
                IF stmt.type = "brace-block-start" THEN braces + 1 ELSE braces
           /\ lastNonBlankType' = stmt.type
    /\ fi' = fi + 1
    /\ UNCHANGED mdvars
    /\ UNCHANGED <<input, options, pc, call, input0, output1, plines, pi,
                   statements, diagramType, openBlocks, output>>

\* one iteration of the loop of format on any other statement
FormatStatement ==
    /\ pc = "format"
    /\ fi <= Len(statements)
    /\ statements[fi].type # "blank-line"
    /\ LET stmt   == statements[fi]
           blank  == /\ shouldInsertBlankBefore(stmt, lastNonBlankType)
                     /\ Len(lines) > 0
                     /\ lines[Len(lines)] # ""
           braces == IF stmt.type = "brace-block-end" /\ braceBlockDepth > 0
                     THEN braceBlockDepth - 1 ELSE braceBlockDepth
           d      == getIndentDepth(stmt, seenDiagramDecl, braces)
       IN  /\ lines' = (IF blank THEN Append(lines, "") ELSE lines)
                           \o <<FormattedLine(stmt, d, options)>>
           /\ depth' = d
           /\ seenDiagramDecl' = (seenDiagramDecl \/ stmt.type = "diagram-decl")
           /\ braceBlockDepth' =
                IF stmt.type = "brace-block-start" THEN braces + 1 ELSE braces
           /\ lastNonBlankType' = stmt.type
    /\ fi' = fi + 1
    /\ UNCHANGED mdvars
    /\ UNCHANGED <<input, options, pc, call, input0, output1, plines, pi,
                   statements, diagramType, openBlocks, output>>

\* format returns lines.join('\n') + '\n'
FormatReturn ==
    /\ pc = "format"
    /\ fi > Len(statements)
    /\ output' = Join(lines) \o "\n"
    /\ pc' = "done"
    /\ UNCHANGED mdvars
    /\ UNCHANGED <<input, options, call, input0, output1, plines, pi,
                   statements, diagramType, openBlocks, lines, fi,
                   braceBlockDepth, seenDiagramDecl, lastNonBlankType, depth>>

\* the caller formats the result again: formatMermaid(formatMermaid(x, o), o)
Reformat ==
    /\ pc = "done"
    /\ call = 1
    /\ output1' = output
    /\ input' = output
    /\ call' = 2
    /\ pc' = "start"
    /\ output' = ""
    /\ UNCHANGED mdvars
    /\ UNCHANGED <<options, input0, plines, pi, statements, diagramType,
                   openBlocks, lines, fi, braceBlockDepth, seenDiagramDecl,
                   lastNonBlankType, depth>>

Next ==
    \/ PassThrough
    \/ ParseStart
    \/ ParseLine
    \/ FormatStart
    \/ FormatBlank
    \/ FormatStatement
    \/ FormatReturn

NextTwice == Next \/ Reformat

(***************************************************************************)
(* Specifications: formatMermaid on every text of at most MaxLines (or     *)
(* MaxRunLines) lines over a line vocabulary                               *)
(***************************************************************************)

\* one line of every statement kind
VocabKinds ==
    {"sequenceDiagram", "x", "A->>B:m", "participant A", "note over A", "end",
     "}", "%% c", "%%{d}%%", "alt a", "class C {", "else", "", "timeline"}

Init == \E t \in Texts(VocabKinds, MaxLines) : InitWith(t, NoOptions)

Spec == Init /\ [][Next]_vars

\* lines whose normalisation is not the identity, formatted twice
VocabTwice ==
    {"flowchart TD", "sequenceDiagram", "timeline", "", "A[ [ x ] ] --> B( y )",
     "  A->>B:  hi  there", "alt  a", "class  C{", "}", "end"}

InitTwice == \E t \in Texts(VocabTwice, MaxLines) : InitWith(t, NoOptions)

SpecTwice == InitTwice /\ [][NextTwice]_vars

\* blank lines (empty and whitespace-only) around content lines
VocabBlank == {"x", "", "  ", "alt a", "end", "sequenceDiagram", "timeline"}

InitBlank == \E t \in Texts(VocabBlank, MaxRunLines) : InitWith(t, NoOptions)

SpecBlank == InitBlank /\ [][Next]_vars

\* indent-sensitive declarations, after skipped lines and before indented bodies
VocabSensitive ==
    {"timeline", "  mindmap", "    x", "\ty [ z ]", "", "%% c", "alt  a", "A : b"}

InitSensitive == \E t \in Texts(VocabSensitive, MaxLines) : InitWith(t, NoOptions)

SpecSensitive == InitSensitive /\ [][Next]_vars

\* keyword blocks and their continuation keywords
VocabKeywords ==
    {"sequenceDiagram", "alt", "critical S", "par P", "loop", "else x", "option",
     "and Q", "else A->>B:hi", "end", "A->>B:hi", "", "timeline"}

InitKeywords == \E t \in Texts(VocabKeywords, MaxLines) : InitWith(t, NoOptions)

SpecKeywords == InitKeywords /\ [][Next]_vars

\* content followed by whitespace-only lines
VocabTrailing == {"sequenceDiagram", "  A->>B: hello", "x", "   ", "\t", "mindmap"}

InitTrailing == \E t \in Texts(VocabTrailing, MaxLines) : InitWith(t, NoOptions)

SpecTrailing == InitTrailing /\ [][Next]_vars

\* FormatOptions values: absent fields, indentSize 0 and 2, useTabs
OptionSet ==
    {NoOptions,
     [indentSize |-> <<2>>, useTabs |-> <<>>],
     [indentSize |-> <<0>>, useTabs |-> <<>>],
     [indentSize |-> <<>>,  useTabs |-> <<TRUE>>],
     [indentSize |-> <<2>>, useTabs |-> <<TRUE>>],
     [indentSize |-> <<2>>, useTabs |-> <<FALSE>>]}

\* statements at depths 0, 1 and 2
VocabIndent == {"classDiagram", "class C {", "}", "x", "alt a", "", "timeline"}

InitIndent ==
    \E t \in Texts(VocabIndent, MaxLines), o \in OptionSet : InitWith(t, o)

SpecIndent == InitIndent /\ [][Next]_vars

(***************************************************************************)
(* Properties                                                              *)
(***************************************************************************)

\* C1: idempotence. For every input of a dialect that is not indent-sensitive,
\* formatting the result of formatMermaid again (same options) returns it
\* unchanged: formatMermaid(formatMermaid(x)) = formatMermaid(x).
C1_Idempotent ==
    (pc = "done" /\ call = 2 /\ ~isIndentSensitive(detectDiagramType(input0)))
        => output = output1

\* C2: trailing newline. The result of formatMermaid ends with exactly one
\* newline: its last character is \n and the one before it is not.
C2_SingleTrailingNewline ==
    pc = "done" => (EndsWith(output, "\n") /\ ~EndsWith(output, "\n\n"))

C4_BlankRunCollapsed ==
    [][(/\ pc = "format"
        /\ fi <= Len(statements)
        /\ fi' = fi + 1
        /\ Trim(plines[fi]) # ""
        /\ fi >= 3
        /\ Trim(plines[fi - 1]) = ""
        /\ \E a \in 1..(fi - 2) : Trim(plines[a]) # "")
       => LET a == Max({k \in 1..(fi - 2) : Trim(plines[k]) # ""})
              n == Len(lines')
          IN  /\ n = Len(lines) + 1
              /\ n >= 3
              /\ SubSeq(lines', 1, n - 1) = lines
              /\ lines'[n] # ""
              /\ TrimStart(lines'[n]) = formatStatement(statements[fi])
              /\ lines'[n - 1] = ""
              /\ lines'[n - 2] # ""
              /\ TrimStart(lines'[n - 2]) = formatStatement(statements[a])]_vars

\* C4 witness: a run of two blank input lines (one empty, one of spaces)
\* between two content lines was rendered as one blank line
C4_Witness ==
    /\ pc = "done"
    /\ Len(plines) = 4
    /\ Trim(plines[1]) # ""
    /\ plines[2] = ""
    /\ plines[3] = "  "
    /\ plines[4] = "alt a"
    /\ lines = <<formatStatement(statements[1]), "", "alt a">>
    /\ output = Join(lines) \o "\n"

\* C5: context-sensitive continuation keywords. When parse classifies a line
\* beginning with the word else / option / and, the statement is block-else /
\* block-option / block-and if the innermost open keyword block is alt /
\* critical / par respectively, and generic-line in every other case.
C5_ContinuationKeywords ==
    [][(pc = "parse" /\ pi <= Len(plines) /\ pi' = pi + 1)
       => LET t   == Trim(plines[pi])
              top == topBlockKind(openBlocks)
              s   == statements'[Len(statements')]
          IN  /\ KeywordB(t, "else") =>
                   s.type = (IF top = "alt" THEN "block-else" ELSE "generic-line")
              /\ KeywordB(t, "option") =>
                   s.type = (IF top = "critical" THEN "block-option"
                             ELSE "generic-line")
              /\ KeywordB(t, "and") =>
                   s.type = (IF top = "par" THEN "block-and" ELSE "generic-line")]_vars

\* indentation width of an output line
IndentWidth(l) == Len(l) - Len(TrimStart(l))

\* the output line of the statement at index j (not a blank-line): non-blank
\* statements and non-empty output lines correspond in order
LineOf(j) ==
    SelectSeq(lines, LAMBDA l : l # "")
        [Cardinality({k \in 1..j : statements[k].type # "blank-line"})]

\* indices of the block-start statements still open after statements 1..i,
\* innermost first
RECURSIVE OpenStarts(_)
OpenStarts(i) ==
    IF i = 0 THEN <<>>
    ELSE IF statements[i].type = "block-start" THEN <<i>> \o OpenStarts(i - 1)
    ELSE IF statements[i].type = "block-end" /\ OpenStarts(i - 1) # <<>>
    THEN Tail(OpenStarts(i - 1))
    ELSE OpenStarts(i - 1)

\* statement kinds of the lines that delimit a keyword block
BlockControlTypes ==
    {"block-start", "block-else", "block-option", "block-and", "block-end"}

\* is a diagram declaration among statements 1..i
DeclBefore(i) == \E k \in 1..i : statements[k].type = "diagram-decl"

\* C6: keyword-block lines at brace depth. Every block-start, block-else,
\* block-option, block-and and block-end line is indented by the current
\* brace depth (0 when no brace block is open), and a statement contained in
\* a keyword block after a diagram declaration, outside brace blocks, is
\* indented by one level.
C6_ControlAtBraceDepth ==
    (pc = "format" /\ fi > 1 /\ statements[fi - 1].type # "blank-line")
        => LET j == fi - 1
               w == IndentWidth(lines[Len(lines)])
               u == Len(IndentStr(options))
           IN  /\ statements[j].type \in BlockControlTypes
                    => w = braceBlockDepth * u
               /\ (/\ statements[j].type \in
                        {"generic-line", "arrow-message", "participant", "note",
                         "comment"}
                   /\ OpenStarts(j - 1) # <<>>
                   /\ DeclBefore(j - 1)
                   /\ braceBlockDepth = 0)
                    => w = u

\* C7: block continuations at the opener's level. In the result, every
\* continuation line (else, option, and) and every closing end line has the
\* same indentation as the start line of the keyword block it belongs to.
C7_ContinuationAtOpener ==
    pc = "done"
        => \A j \in 1..Len(statements) :
             statements[j].type \in
                 {"block-else", "block-option", "block-and", "block-end"}
               => /\ OpenStarts(j - 1) # <<>>
                  /\ IndentWidth(LineOf(j))
                       = IndentWidth(LineOf(Head(OpenStarts(j - 1))))

\* C8: keyword blocks indent by nesting depth. In the result, after a diagram
\* declaration, the start and end lines of a keyword block are indented one
\* level per enclosing construct (1 directly under the declaration, 2 inside
\* another keyword block), and a statement inside a keyword block is indented
\* one level deeper than the block's start line.
C8_NestingDepth ==
    pc = "done"
        => \A j \in 1..Len(statements) :
             LET u == Len(IndentStr(options))
             IN  /\ (statements[j].type = "block-start" /\ DeclBefore(j - 1))
                      => IndentWidth(LineOf(j))
                           = (1 + Len(OpenStarts(j - 1))) * u
                 /\ (statements[j].type = "block-end" /\ DeclBefore(j - 1))
                      => IndentWidth(LineOf(j)) = (1 + Len(OpenStarts(j))) * u
                 /\ (/\ statements[j].type \in
                          {"generic-line", "arrow-message", "participant",
                           "note", "comment"}
                     /\ OpenStarts(j - 1) # <<>>
                     /\ DeclBefore(j - 1))
                      => IndentWidth(LineOf(j))
                           = IndentWidth(LineOf(Head(OpenStarts(j - 1)))) + u

\* C9: blank-line insertion before block openers. When format emits a
\* statement it first inserts exactly one blank line if and only if the
\* statement is a block-start or brace-block-start, the statement emitted
\* before it is a diagram-decl, generic-line, arrow-message, participant, note,
\* block-end or brace-block-end, and the last output line is not blank; in
\* every other case (another kind of statement, an opener emitted first, an
\* opener after a comment, directive, opener or continuation line, or after a
\* blank line) it adds the statement's line and nothing else.
C9_BlankBeforeOpener ==
    [][(/\ pc = "format"
        /\ fi <= Len(statements)
        /\ fi' = fi + 1
        /\ statements[fi].type # "blank-line")
       => LET prev == {a \in 1..(fi - 1) : statements[a].type # "blank-line"}
              n    == Len(lines)
          IN  IF /\ statements[fi].type \in {"block-start", "brace-block-start"}
                 /\ prev # {}
                 /\ statements[Max(prev)].type \in
                      {"diagram-decl", "generic-line", "arrow-message",
                       "participant", "note", "block-end", "brace-block-end"}
                 /\ n > 0
                 /\ lines[n] # ""
              THEN /\ Len(lines') = n + 2
                   /\ SubSeq(lines', 1, n) = lines
                   /\ lines'[n + 1] = ""
                   /\ lines'[n + 2] # ""
              ELSE /\ Len(lines') = n + 1
                   /\ SubSeq(lines', 1, n) = lines
                   /\ lines'[n + 1] # ""]_vars

\* C9 witness: a brace-block-start emitted right after a brace-block-end got
\* one blank line before it
C9_Witness ==
    /\ pc = "format"
    /\ fi = 4
    /\ statements[2].type = "brace-block-end"
    /\ statements[3].type = "brace-block-start"
    /\ lines = <<"class C {", "}", "", "class C {">>

\* C10: indent options. The line emitted for a statement at depth d is d
\* copies of the indent unit followed by the statement's text, which starts
\* with no whitespace; the unit is one tab when useTabs is true, and otherwise
\* indentSize spaces (4 when indentSize is absent, none when it is 0).
C10_IndentUnit ==
    (pc = "format" /\ fi > 1 /\ statements[fi - 1].type # "blank-line")
        => LET unit == IF options.useTabs = <<TRUE>> THEN "\t"
                       ELSE IF options.indentSize = <<>> THEN "    "
                       ELSE Repeat(" ", options.indentSize[1])
               text == formatStatement(statements[fi - 1])
           IN  /\ lines[Len(lines)] = Repeat(unit, depth) \o text
               /\ TrimStart(text) = text
               /\ text # ""

\* C10 witness: with useTabs and indentSize 2, a line at depth 2 was emitted
\* with two tabs
C10_Witness ==
    /\ pc = "format"
    /\ options = [indentSize |-> <<2>>, useTabs |-> <<TRUE>>]
    /\ depth = 2
    /\ fi = 4
    /\ lines = <<"class C {", "\tclass C {", "\t\tx">>

(***************************************************************************)
(* Arrow lines: formatMermaid on a first line followed by a line made of a *)
(* source, an operator, a target, a colon and a message, with whitespace   *)
(* between them                                                            *)
(***************************************************************************)

ArrowDialects == {"sequenceDiagram", "classDiagram", "flowchart TD"}

ArrowSources == {"A", "Animal", "client app"}

ArrowTargets == {"B", "Dog"}

ArrowEnds == {<<"A", "B">>, <<"Animal", "Dog">>, <<"client app", "Dog">>}

\* the ten operators, bare and with the activation suffixes
ArrowOperators ==
    {ARROWS[i] \o suf : i \in 1..Len(ARROWS), suf \in {"", "+", "-"}}

\* messages, each with its single-spaced form
ArrowMessages ==
    {<<"", "">>, <<"hello", "hello">>, <<"inherits", "inherits">>,
     <<"hello  world   x", "hello world x">>,
     <<"visit https://e.com", "visit https://e.com">>,
     <<"::warning", "::warning">>}

\* whitespace around the operator, before the colon, after the colon
ArrowGaps ==
    {<<"", "", "">>, <<"", "", " ">>, <<" ", "", "">>, <<"  ", " ", "\t ">>}

ArrowLine(f, op, t, m, g) ==
    f \o g[1] \o op \o g[1] \o t \o g[2] \o ":" \o g[3] \o m

\* a declaration and an arrow line; also an arrow line after a blank line
\* and in a timeline
InitArrow ==
    \/ \E first \in ArrowDialects, e \in ArrowEnds, op \in ArrowOperators,
          m \in ArrowMessages, g \in ArrowGaps :
           InitWith(first \o "\n" \o ArrowLine(e[1], op, e[2], m[1], g), NoOptions)
    \/ \E first \in {"", "timeline"}, op \in ArrowOperators :
           InitWith(first \o "\n" \o ArrowLine("A", op, "B", "hello", <<"", "", "">>),
                    NoOptions)

SpecArrow == InitArrow /\ [][Next]_vars

\* is line the source f, the operator op, the target t, a colon and the
\* message m, in this order, with any whitespace between them
ArrowShape(line, f, op, t, m) ==
    LET p1 == Len(f) + 1 + WsRun(line, Len(f) + 1)
        p2 == p1 + Len(op) + WsRun(line, p1 + Len(op))
        p3 == p2 + Len(t) + WsRun(line, p2 + Len(t))
        p4 == p3 + 1 + WsRun(line, p3 + 1)
    IN  /\ StartsWith(line, f)
        /\ StartsWithAt(line, p1, op)
        /\ StartsWithAt(line, p2, t)
        /\ Ch(line, p3) = ":"
        /\ From(line, p4) = m

\* the dialect parse has fixed before line k: "unknown" before a declaration
DialectAt(k) ==
    LET ds == {i \in 1..(k - 1) : statements[i].type = "diagram-decl"}
    IN  IF ds = {} THEN "unknown" ELSE statements[Min(ds)].diagramType

C12_ClassSyntaxUnchanged ==
    pc = "done"
        => \A k \in 1..Len(statements), f \in ArrowSources,
              op \in ArrowOperators, t \in ArrowTargets :
             ArrowShape(Trim(plines[k]), f, op, t, "::warning")
               => /\ statements[k].type = "generic-line"
                  /\ TrimStart(LineOf(k)) = Trim(plines[k])

\* C12, amended: in every dialect such a line is never an arrow-message; it is
\* a generic-line (its first word being no keyword of an earlier rule) and is
\* rendered as one: its trimmed text with each run of two or more spaces
\* collapsed to one, so that a line without such runs is unchanged.
C12_ClassSyntaxGeneric ==
    pc = "done"
        => \A k \in 1..Len(statements), e \in ArrowEnds, op \in ArrowOperators,
              g \in ArrowGaps :
             Trim(plines[k]) = ArrowLine(e[1], op, e[2], "::warning", g)
               => /\ statements[k].type = "generic-line"
                  /\ statements[k].from = ""
                  /\ TrimStart(LineOf(k))
                       = ArrowLine(e[1], op, e[2], "::warning",
                                   <<IF g[1] = "  " THEN " " ELSE g[1], g[2], g[3]>>)

\* C12 witness: in a sequenceDiagram, a class assignment with two spaces
\* around the operator was rendered as a generic line, with one
C12_Witness ==
    /\ pc = "done"
    /\ input0 = "sequenceDiagram\nAnimal  -->  Dog :\t ::warning"
    /\ statements[2].type = "generic-line"
    /\ output = "sequenceDiagram\n    Animal --> Dog :\t ::warning\n"

\* C13: arrow messages in non-sequence diagrams. Also when the dialect is not
\* sequenceDiagram, a line made of a source, an operator, a target, a colon
\* and a message is classified arrow-message with these parts and rendered
\* normalized, e.g. `Animal-->Dog:inherits` in a classDiagram as
\* `Animal --> Dog: inherits`.
C13_ArrowsInEveryDialect ==
    pc = "done"
        => \A k \in 1..Len(statements), f \in ArrowSources,
              op \in ArrowOperators, t \in ArrowTargets, m \in ArrowMessages :
             (/\ DialectAt(k) # "sequenceDiagram"
              /\ ~StartsWith(m[1], "::")
              /\ ArrowShape(Trim(plines[k]), f, op, t, m[1]))
               => /\ statements[k].type = "arrow-message"
                  /\ statements[k].from = f
                  /\ statements[k].arrow = op
                  /\ statements[k].to = t
                  /\ statements[k].message = m[1]
                  /\ TrimStart(LineOf(k))
                       = f \o " " \o op \o " " \o t \o ":"
                           \o (IF m[1] = "" THEN "" ELSE " " \o m[2])

(***************************************************************************)
(* Bracket lines: formatMermaid on texts whose lines hold padded, nested   *)
(* and unmatched brackets                                                  *)
(***************************************************************************)

VocabBracket ==
    {"flowchart TD", "A[ Start ] --> B[ End ]", "A[ [ x ] ]", "A[[ x ]]",
     "A{ x }", "f( a ( b ) c )", "A[ x", "A[x ]", "A[ ( x ) ]",
     "participant P( y )", "note over A: [ n ]", "", "timeline"}

InitBracket == \E t \in Texts(VocabBracket, MaxLines) : InitWith(t, NoOptions)

SpecBracket == InitBracket /\ [][Next]_vars

\* does the delimiter opened before position j of s, d levels deep at j, have
\* its matching closer in s
RECURSIVE ClosesFrom(_, _, _, _, _)
ClosesFrom(s, open, close, j, d) ==
    IF d = 0 THEN TRUE
    ELSE IF j > Len(s) THEN FALSE
    ELSE ClosesFrom(s, open, close, j + 1,
                    IF Ch(s, j) = open THEN d + 1
                    ELSE IF Ch(s, j) = close THEN d - 1 ELSE d)

\* the positions of s where an opener is followed by a space and has its
\* matching closer
PaddedPairs(s) ==
    {i \in 1..Len(s) :
       \E b \in {<<"[", "]">>, <<"{", "}">>, <<"(", ")">>} :
          /\ Ch(s, i) = b[1]
          /\ Ch(s, i + 1) = " "
          /\ ClosesFrom(s, b[1], b[2], i + 1, 1)}

\* s without its spaces
RECURSIVE Unspaced(_)
Unspaced(s) ==
    IF s = "" THEN ""
    ELSE IF Ch(s, 1) = " " THEN Unspaced(From(s, 2))
    ELSE Ch(s, 1) \o Unspaced(From(s, 2))

\* C14: bracket normalization. In the rendering of a generic-line, participant
\* or note, no [ ], { } or ( ) pair whose opener is followed by a space (the
\* closer being the one that matches it by depth counting) keeps its padding;
\* only spaces are removed; a line whose openers have no matching closer or
\* no space after them is unchanged; `A[ Start ] --> B[ End ]` is rendered
\* `A[Start] --> B[End]`.
C14_BracketPadding ==
    pc = "done"
        => \A k \in 1..Len(statements) :
             statements[k].type \in {"generic-line", "participant", "note"}
               => LET in  == Trim(plines[k])
                      out == TrimStart(LineOf(k))
                  IN  /\ PaddedPairs(out) = {}
                      /\ Unspaced(out) = Unspaced(in)
                      /\ PaddedPairs(in) = {} => out = in
                      /\ in = "A[ Start ] --> B[ End ]"
                           => out = "A[Start] --> B[End]"

(***************************************************************************)
(* Comment lines: formatMermaid on texts with comments and directives that *)
(* hold runs of spaces, padded brackets and padded pipes                   *)
(***************************************************************************)

VocabComment ==
    {"classDiagram", "class C {", "}", "x", "  %% a  [ b ]  | c |",
     "%%{init: { 'x':  1 } }%%", "%%", "", "timeline"}

InitComment == \E t \in Texts(VocabComment, MaxLines) : InitWith(t, NoOptions)

SpecComment == InitComment /\ [][Next]_vars

\* C15: comments and directives are opaque. An input line whose trimmed text
\* starts with %%{ is a directive and one that starts with %% but not %%{ is
\* a comment; either is emitted as its trimmed text, character for character,
\* after its indentation: none for a directive, and for a comment the depth of
\* ordinary content (the brace depth inside a brace block, else 1 after a
\* diagram declaration, else 0).
C15_OpaqueComments ==
    (pc = "format" /\ fi > 1 /\ StartsWith(Trim(plines[fi - 1]), "%%"))
        => LET t == Trim(plines[fi - 1])
               d == IF StartsWith(t, "%%{") THEN 0
                    ELSE IF braceBlockDepth > 0 THEN braceBlockDepth
                    ELSE IF DeclBefore(fi - 1) THEN 1
                    ELSE 0
           IN  /\ statements[fi - 1].type =
                    (IF StartsWith(t, "%%{") THEN "directive" ELSE "comment")
               /\ lines[Len(lines)] = Repeat("    ", d) \o t

\* C15 witness: inside a brace block after a declaration, a comment with runs
\* of spaces and padded brackets and pipes was emitted as written, at depth 1
C15_Witness ==
    /\ pc = "format"
    /\ fi = 4
    /\ braceBlockDepth = 1
    /\ lines = <<"classDiagram", "", "class C {", "    %% a  [ b ]  | c |">>

(***************************************************************************)
(* formatMarkdownMermaidBlocks: markdown.replace(pattern, callback), one   *)
(* action per match, per callback return and for the end of the search     *)
(***************************************************************************)

\* the code fence of three backticks and the opening fence with its language
\* tag; a TLA+ string cannot hold a backtick, ~ stands for it
Fence == "~~~"

FenceOpen == "~~~mermaid"

\* ^ with the m flag: the start of the text or the position after a line break
LineStart(text, p) == p = 1 \/ Ch(text, p - 1) \in {"\n", "\r"}

\* number of consecutive characters of [ \t] starting at position p
RECURSIVE BlankRun(_, _)
BlankRun(text, p) ==
    IF Ch(text, p) \in {" ", "\t"} THEN 1 + BlankRun(text, p + 1) ELSE 0

\* the positions from c on where a closing fence starts
ClosingFences(text, c) == {j \in c..Len(text) : StartsWithAt(text, j, Fence)}

\* the opening fence and \r?\n at position q: the position after it, 0 when it is not there
CodeStart(text, q) ==
    IF ~StartsWithAt(text, q, FenceOpen) THEN 0
    ELSE IF Ch(text, q + 10) = "\n" THEN q + 11
    ELSE IF Ch(text, q + 10) = "\r" /\ Ch(text, q + 11) = "\n" THEN q + 12
    ELSE 0

\* the match of the pattern at position p: <<>> when there is none, else
\* <<[indent, code, next]>> with next the position after the match
FenceMatch(text, p, c) ==
    IF ~LineStart(text, p) \/ c = 0 \/ ClosingFences(text, c) = {} THEN <<>>
    ELSE <<[at     |-> p,
            indent |-> SubSeq(text, p, p + BlankRun(text, p) - 1),
            code   |-> SubSeq(text, c, Min(ClosingFences(text, c)) - 1),
            next   |-> Min(ClosingFences(text, c)) + 3]>>

\* the first match of the pattern from position p on: <<>> when there is none
NextFence(text, p) ==
    Second(PickMin({<<q, FenceMatch(text, q, CodeStart(text, q + BlankRun(text, q)))>> :
                       q \in p..Len(text)}))

\* applyIndent
applyIndent(content, ind) ==
    IF ind = "" THEN content
    ELSE Join([k \in 1..Len(Split(content)) |->
                 IF Split(content)[k] # "" THEN ind \o Split(content)[k]
                 ELSE Split(content)[k]])

\* the state before formatMarkdownMermaidBlocks(doc, o)
InitMarkdownWith(doc, o) ==
    /\ markdown = doc
    /\ mdpc = "scan"
    /\ mdPos = 1
    /\ indent = ""
    /\ result = ""
    /\ input = ""
    /\ options = o
    /\ pc = "idle"
    /\ call = 1
    /\ input0 = ""
    /\ output1 = ""
    /\ plines = <<>>
    /\ pi = 1
    /\ statements = <<>>
    /\ diagramType = "unknown"
    /\ openBlocks = <<>>
    /\ lines = <<>>
    /\ fi = 1
    /\ braceBlockDepth = 0
    /\ seenDiagramDecl = FALSE
    /\ lastNonBlankType = "null"
    /\ depth = 0
    /\ output = ""

\* replace calls the callback for the match m: formatMermaid(code, options)
CallbackFor(m) ==
    /\ result' = result \o SubSeq(markdown, mdPos, m.at - 1)
    /\ indent' = m.indent
    /\ input' = m.code
    /\ input0' = m.code
    /\ mdPos' = m.next
    /\ output' = ""
    /\ pc' = "start"
    /\ mdpc' = "call"

\* replace finds the next match of the pattern
MarkdownMatch ==
    /\ mdpc = "scan"
    /\ NextFence(markdown, mdPos) # <<>>
    /\ CallbackFor(NextFence(markdown, mdPos)[1])
    /\ UNCHANGED <<markdown, options, call, output1, plines, pi, statements,
                   diagramType, openBlocks, lines, fi, braceBlockDepth,
                   seenDiagramDecl, lastNonBlankType, depth>>

\* the callback returns the replacement of the match
MarkdownReplace ==
    /\ mdpc = "call"
    /\ pc = "done"
    /\ result' = result \o indent \o FenceOpen \o "\n" \o applyIndent(output, indent)
                        \o indent \o Fence
    /\ mdpc' = "scan"
    /\ pc' = "idle"
    /\ UNCHANGED <<markdown, mdPos, indent, input, options, call, input0,
                   output1, plines, pi, statements, diagramType, openBlocks,
                   lines, fi, braceBlockDepth, seenDiagramDecl,
                   lastNonBlankType, depth, output>>

\* no further match: replace returns, the rest of the text unchanged
MarkdownReturn ==
    /\ mdpc = "scan"
    /\ NextFence(markdown, mdPos) = <<>>
    /\ result' = result \o From(markdown, mdPos)
    /\ mdpc' = "done"
    /\ UNCHANGED <<markdown, mdPos, indent, input, options, pc, call, input0,
                   output1, plines, pi, statements, diagramType, openBlocks,
                   lines, fi, braceBlockDepth, seenDiagramDecl,
                   lastNonBlankType, depth, output>>

NextMarkdown ==
    \/ Next
    \/ MarkdownMatch
    \/ MarkdownReplace
    \/ MarkdownReturn

(***************************************************************************)
(* Markdown documents: one fenced block at a host indent, its body lines   *)
(* at that indent; and documents with no block, two blocks, CRLF line      *)
(* ends, a closing fence inside a line                                     *)
(***************************************************************************)

\* lines of a block body, before the host indent
VocabMdBody == {"sequenceDiagram", "  A->>B:hi", "mindmap", "    root", "x", ""}

\* host indents of the fence
MdIndents == {"", "  ", "\t"}

\* text before and after the block
MdContexts == {<<"", "">>, <<"- item\n", "\n- next item">>}

\* the lines ls, each followed by \n, the non-empty ones after the indent s
RECURSIVE HostLines(_, _)
HostLines(ls, s) ==
    IF ls = <<>> THEN ""
    ELSE (IF Head(ls) = "" THEN "" ELSE s \o Head(ls)) \o "\n"
             \o HostLines(Tail(ls), s)

\* the document with one block of body lines ls at host indent s
MdDoc(ctx, s, ls) ==
    ctx[1] \o s \o FenceOpen \o "\n" \o HostLines(ls, s) \o s \o Fence \o ctx[2]

MdOtherDocs ==
    {"# Title\ntext",
     "~~~mermaid\nsequenceDiagram\n  A->>B: hello\n~~~\n\n~~~mermaid\nflowchart TD\n  A --> B\n~~~",
     "~~~mermaid\r\nsequenceDiagram\r\n  A->>B: hello\r\n~~~",
     "~~~mermaid\nx~~~ y",
     "~~~mermaid x\n~~~",
     "a ~~~mermaid\nx\n~~~"}

InitMarkdown ==
    \/ \E ctx \in MdContexts, s \in MdIndents, t \in Texts(VocabMdBody, MaxLines) :
          InitMarkdownWith(MdDoc(ctx, s, Split(t)), NoOptions)
    \/ \E doc \in MdOtherDocs : InitMarkdownWith(doc, NoOptions)

SpecMarkdown == InitMarkdown /\ [][NextMarkdown]_vars

\* C16: markdown embedding preserves host indentation. For a document with
\* one fenced block whose fences and body lines are at host indent s, in every
\* dialect, the result is the document with the block body replaced by
\* formatMermaid of the body without the indent s, s re-applied to every
\* non-empty line and to the closing fence and no indent on empty lines. For
\* an indent-sensitive dialect formatMermaid returns that body as it is, so
\* the document is unchanged; for the other dialects the body lines are the
\* lines format emits for the trimmed body lines (one empty line when it
\* emits none).
C16_HostIndentPreserved ==
    mdpc = "done"
        => \A ctx \in MdContexts, s \in MdIndents :
             LET head == ctx[1] \o s \o FenceOpen \o "\n"
                 tail == "\n" \o s \o Fence \o ctx[2]
             IN  (/\ StartsWith(markdown, head)
                  /\ EndsWith(markdown, tail)
                  /\ Len(markdown) >= Len(head) + Len(tail) - 1
                  /\ Cardinality({j \in 1..Len(markdown) :
                                    StartsWithAt(markdown, j, FenceOpen)}) = 1)
                   => IF isIndentSensitive(detectDiagramType(input0))
                      THEN result = markdown
                      ELSE result = MdDoc(ctx, s, IF lines = <<>> THEN <<"">>
                                                      ELSE lines)

(***************************************************************************)
(* Block stack: formatMermaid on texts of block keywords, end lines, brace *)
(* blocks and continuation keywords                                        *)
(***************************************************************************)

VocabStack ==
    {"alt", "loop x", "end", "  end\t", "end x", "class C {", "}", "else",
     "and", "x", "", "timeline"}

InitStack == \E t \in Texts(VocabStack, MaxLines) : InitWith(t, NoOptions)

SpecStack == InitStack /\ [][Next]_vars

\* the number of statements of the given type parsed so far
CountType(type) ==
    Cardinality({i \in 1..Len(statements) : statements[i].type = type})

\* C17: bare end and the open-block stack. When parse classifies a line, the
\* stack holds as many kinds as there are more block-start than block-end
\* statements before the line; a line that is exactly `end` becomes a
\* block-end when that number is positive and a generic-line otherwise; a
\* block-end removes the innermost kind, a block-start adds its kind, and
\* every other statement leaves the stack as it is.
C17_EndAndStack ==
    [][(pc = "parse" /\ pi <= Len(plines) /\ pi' = pi + 1)
       => LET t    == Trim(plines[pi])
              s    == statements'[Len(statements')]
              open == CountType("block-start") - CountType("block-end")
          IN  /\ Len(openBlocks) = open
              /\ t = "end" =>
                   s.type = (IF open > 0 THEN "block-end" ELSE "generic-line")
              /\ s.type = "block-end" =>
                   /\ t = "end"
                   /\ open > 0
                   /\ openBlocks' = SubSeq(openBlocks, 1, Len(openBlocks) - 1)
              /\ s.type = "block-start" =>
                   /\ KeywordB(t, s.blockKind)
                   /\ openBlocks' = Append(openBlocks, s.blockKind)
              /\ s.type \notin {"block-start", "block-end"} =>
                   openBlocks' = openBlocks]_vars

\* C17 witness: after alt, loop and end, the end was accepted and removed the
\* loop, leaving the alt open
C17_Witness ==
    /\ pc = "parse"
    /\ pi = 4
    /\ plines = <<"alt", "loop x", "  end\t">>
    /\ statements[3].type = "block-end"
    /\ openBlocks = <<"alt">>

\* C18: every line yields exactly one statement. parse splits the input at
\* its newlines and, line after line in input order, pushes exactly one
\* statement that carries the line's trimmed text: a blank-line for a blank
\* line, a generic-line or a more specific kind otherwise; the Diagram it
\* returns has as many statements as the input has lines.
C18_OneStatementPerLine ==
    (pc \in {"parse", "format"} \/ (pc = "done" /\ plines # <<>>))
        => /\ Len(plines)
                = 1 + Cardinality({i \in 1..Len(input) : Ch(input, i) = "\n"})
           /\ Join(plines) = input
           /\ Len(statements) = (IF pc = "parse" THEN pi - 1 ELSE Len(plines))
           /\ \A k \in 1..Len(statements) :
                /\ statements[k].content = Trim(plines[k])
                /\ statements[k].type = "blank-line" <=> Trim(plines[k]) = ""

\* C18 witness: parse returned three statements for a text of three lines,
\* the second of them blank
C18_Witness ==
    /\ pc = "format"
    /\ input = "x\n\n}"
    /\ Len(statements) = 3
    /\ statements[1].type = "generic-line"
    /\ statements[2].type = "blank-line"
    /\ statements[3].type = "brace-block-end"

(***************************************************************************)
(* Declarations: formatMermaid on texts with several declaration lines,    *)
(* before and after comments, directives and content                       *)
(***************************************************************************)

\* declaration lines, each with the dialect it declares
DeclLines ==
    {<<"sequenceDiagram", "sequenceDiagram">>, <<"flowchart TD", "flowchart">>,
     <<"  graph", "graph">>, <<"stateDiagram-v2", "stateDiagram-v2">>,
     <<"stateDiagram", "stateDiagram">>, <<"pie showData", "pie">>,
     <<"timeline", "timeline">>}

VocabDecl ==
    {d[1] : d \in DeclLines}
        \cup {"x", "%% sequenceDiagram", "%%{init}%%", "", "classDiagramX"}

InitDecl == \E t \in Texts(VocabDecl, MaxLines) : InitWith(t, NoOptions)

SpecDecl == InitDecl /\ [][Next]_vars

\* the dialect the text of line k declares, "null" when it declares none
Declared(k) ==
    LET ds == {d \in DeclLines : Trim(d[1]) = Trim(plines[k])}
    IN  IF ds = {} THEN "null" ELSE (CHOOSE d \in ds : TRUE)[2]

\* C19: single declaration, fixed dialect. While parse runs and in the Diagram
\* it returns, at most one statement is a diagram-decl: the one of the first
\* line that declares a dialect (comments, directives and blank lines declare
\* none); the diagram type is unknown as long as no such line was parsed and
\* is the dialect of that first line ever after; every later line that
\* declares a dialect is a generic-line.
C19_SingleDeclaration ==
    (pc \in {"parse", "format"} \/ (pc = "done" /\ plines # <<>>))
        => LET decls == {k \in 1..Len(statements) : Declared(k) # "null"}
           IN  /\ CountType("diagram-decl") <= 1
               /\ diagramType =
                    (IF decls = {} THEN "unknown" ELSE Declared(Min(decls)))
               /\ \A k \in 1..Len(statements) :
                    /\ statements[k].type = "diagram-decl"
                         <=> (k \in decls /\ k = Min(decls))
                    /\ (k \in decls /\ k # Min(decls))
                         => statements[k].type = "generic-line"
                    /\ statements[k].type = "diagram-decl"
                         => statements[k].diagramType = Declared(k)

\* C19 witness: after stateDiagram-v2 a second declaration line was parsed as
\* a generic-line and the type stayed stateDiagram-v2
C19_Witness ==
    /\ pc = "parse"
    /\ pi = 4
    /\ plines = <<"%% sequenceDiagram", "stateDiagram-v2", "sequenceDiagram">>
    /\ statements[2].type = "diagram-decl"
    /\ statements[3].type = "generic-line"
    /\ diagramType = "stateDiagram-v2"

\* C20: declaration comes first. In every Diagram returned by parse that
\* contains a diagram-decl, every statement before the diagram-decl is a
\* blank-line, a comment or a directive.
C20_DeclarationFirst ==
    pc = "format"
        => \A d \in 1..Len(statements) :
             statements[d].type = "diagram-decl"
               => \A k \in 1..(d - 1) :
                    statements[k].type \in {"blank-line", "comment", "directive"}

\* C20, amended: in every Diagram returned by parse that contains a
\* diagram-decl, the diagram-decl is the first statement whose line declares a
\* dialect: every statement before it is a blank-line, a comment, a directive
\* or a statement of a line that declares no dialect.
C20_DeclarationFirstDeclaring ==
    pc = "format"
        => \A d \in 1..Len(statements) :
             statements[d].type = "diagram-decl"
               => \A k \in 1..(d - 1) :
                    \/ statements[k].type \in {"blank-line", "comment", "directive"}
                    \/ /\ Declared(k) = "null"
                       /\ statements[k].type # "diagram-decl"

\* C20 witness: parse returned a Diagram whose declaration follows a
\* generic-line
C20_Witness ==
    /\ pc = "format"
    /\ plines = <<"x", "sequenceDiagram", "x">>
    /\ statements[1].type = "generic-line"
    /\ statements[2].type = "diagram-decl"
    /\ diagramType = "sequenceDiagram"

(***************************************************************************)
(* Brace blocks: formatMermaid on texts of brace-block openers, closing    *)
(* braces (some of them stray) and the lines around them                   *)
(***************************************************************************)

VocabBrace ==
    {"classDiagram", "class C {", "}", "x", "%%{d}%%", "alt a", "", "timeline"}

InitBrace == \E t \in Texts(VocabBrace, MaxBraceLines) : InitWith(t, NoOptions)

SpecBrace == InitBrace /\ [][Next]_vars

\* number of statements of the given type among statements a..b
CountIn(a, b, type) == Cardinality({k \in a..b : statements[k].type = type})

\* the brace-block-start statements among 1..i that no later brace-block-end
\* up to i closes: a closing brace closes the nearest opener still open, and
\* one that finds no opener closes nothing
OpenBraces(i) ==
    {j \in 1..i :
        /\ statements[j].type = "brace-block-start"
        /\ \A m \in (j + 1)..i :
             CountIn(j + 1, m, "brace-block-end")
                 <= CountIn(j + 1, m, "brace-block-start")}

\* C21: stray closing brace and depth clamping. parse classifies every line
\* that consists of a closing brace as brace-block-end, whether or not a brace
\* block is open; in format the brace depth is never negative; a
\* brace-block-end met at depth 0 is rendered at column 0 and leaves the depth
\* at 0; and the depth after any number of statements is the number of
\* openers not yet closed, the closing braces that closed nothing not counted.
C21_StrayBraceClamped ==
    [][/\ (pc = "parse" /\ pi <= Len(plines) /\ pi' = pi + 1
                /\ Trim(plines[pi]) = "}")
            => statements'[Len(statements')].type = "brace-block-end"
       /\ braceBlockDepth' >= 0
       /\ (pc = "format" /\ fi <= Len(statements) /\ fi' = fi + 1
                /\ statements[fi].type = "brace-block-end" /\ braceBlockDepth = 0)
            => /\ braceBlockDepth' = 0
               /\ lines'[Len(lines')] = "}"
       /\ pc' = "format"
            => braceBlockDepth' = Cardinality(OpenBraces(fi' - 1))]_vars

\* C21 witness: a closing brace with no opener was rendered at column 0, and
\* the brace block after it at depths 0 and 1
C21_Witness ==
    /\ pc = "format"
    /\ fi = 5
    /\ plines = <<"classDiagram", "}", "class C {", "x">>
    /\ statements[2].type = "brace-block-end"
    /\ lines = <<"classDiagram", "}", "", "class C {", "    x">>
    /\ braceBlockDepth = 1

\* one step of the brace depth: 0 when format starts; a brace-block-start is
\* positioned at the depth before it and adds one; a brace-block-end takes one
\* off a positive depth and is positioned at the depth after it; any other
\* statement leaves the depth alone
BraceStep ==
    /\ (pc = "parse" /\ pc' = "format") => braceBlockDepth' = 0
    /\ (pc = "format" /\ fi <= Len(statements) /\ fi' = fi + 1)
         => LET type == statements[fi].type
                w    == IndentWidth(lines'[Len(lines')])
                u    == Len(IndentStr(options))
            IN  CASE type = "brace-block-start" ->
                       /\ braceBlockDepth' = braceBlockDepth + 1
                       /\ w = braceBlockDepth * u
                  [] type = "brace-block-end" ->
                       /\ braceBlockDepth' =
                            (IF braceBlockDepth > 0 THEN braceBlockDepth - 1
                             ELSE braceBlockDepth)
                       /\ w = braceBlockDepth' * u
                  [] OTHER -> braceBlockDepth' = braceBlockDepth

\* the lines of a brace block that format has emitted so far: the closing
\* line at the depth of the opening line it matches; the opening line of a
\* block one level deeper for each brace block around it; and every other
\* statement inside a brace block, the exempt types apart, one level deeper
\* than the opening line of the innermost block around it
BraceRendered(exempt) ==
    (pc = "format" /\ fi > 1 /\ statements[fi - 1].type # "blank-line")
        => LET j    == fi - 1
               open == OpenBraces(j - 1)
               w    == IndentWidth(lines[Len(lines)])
               u    == Len(IndentStr(options))
           IN  /\ statements[j].type = "brace-block-start"
                    => w = Cardinality(open) * u
               /\ (statements[j].type = "brace-block-end" /\ open # {})
                    => w = IndentWidth(LineOf(Max(open)))
               /\ (/\ statements[j].type \notin
                        {"brace-block-end", "brace-block-start"} \cup exempt
                   /\ open # {})
                    => w = IndentWidth(LineOf(Max(open))) + u

\* C22: brace depth state machine. In format the brace depth starts at 0, is
\* incremented after a brace-block-start line has been positioned,
\* decremented (when positive) before a brace-block-end line is positioned,
\* and changed by no other statement; a brace-block-start line and its
\* matching brace-block-end line are rendered at the same depth, every
\* statement between them is one level deeper, and each further nested brace
\* block adds one level.
C22_BraceDepthMachine == [][BraceStep /\ BraceRendered({})]_vars

\* C22, amended: the same, except that the statements between the two lines
\* that are one level deeper are those other than diagram-decl and directive
\* statements (which are at depth 0 wherever they are).
C22_BraceDepthMachineContent ==
    [][BraceStep /\ BraceRendered({"diagram-decl", "directive"})]_vars

\* C22 witness: a brace block nested in a brace block, its statement two
\* levels deep and its closing line at the depth of its opening line
C22_Witness ==
    /\ pc = "format"
    /\ fi = 5
    /\ plines = <<"class C {", "class C {", "x", "}">>
    /\ lines = <<"class C {", "    class C {", "        x", "    }">>
    /\ braceBlockDepth = 1

VocabLabel ==
    {"sequenceDiagram", "alt", "critical  S", "par P", "else   x  y", "else",
     "option\t z", "option", "and  Q", "and", "", "timeline"}

InitLabel == \E t \in Texts(VocabLabel, MaxLines) : InitWith(t, NoOptions)

SpecLabel == InitLabel /\ [][Next]_vars

\* the keyword of a continuation statement
ContinuationKeyword(type) ==
    CASE type = "block-option" -> "option"
      [] type = "block-else" -> "else"
      [] type = "block-and" -> "and"

\* C24: continuation lines render as keyword plus label. The line format
\* emits for a block-option, block-else or block-and statement is, after its
\* indentation, the keyword followed by one space and the label (the text of
\* the input line after the keyword, trimmed) when there is a label, and the
\* keyword alone when there is none.
C24_KeywordPlusLabel ==
    (pc = "format" /\ fi > 1
        /\ statements[fi - 1].type \in {"block-option", "block-else", "block-and"})
        => LET kw    == ContinuationKeyword(statements[fi - 1].type)
               label == Trim(From(Trim(plines[fi - 1]), Len(kw) + 1))
           IN  TrimStart(lines[Len(lines)])
                 = (IF label # "" THEN kw \o " " \o label ELSE kw)

C26_BlankAfterContent ==
    /\ pc \in {"format", "done"}
         => \A i \in 1..Len(lines) :
              /\ lines[i] = "" => (i > 1 /\ lines[i - 1] # "")
              /\ lines[i] # "" => Trim(lines[i]) # ""
    /\ (pc = "done" /\ plines # <<>>) => output = Join(lines) \o "\n"

\* C26 witness: two blank input lines before a block opener that follows
\* content gave one blank line
C26_Witness ==
    /\ pc = "done"
    /\ plines = <<"x", "", "  ", "alt a">>
    /\ output = "x\n\nalt a\n"

(***************************************************************************)
(* Termination: formatMermaid on malformed texts                           *)
(***************************************************************************)

\* openers never closed, closers never opened, continuations without a block
VocabTotal ==
    {"sequenceDiagram", "alt a", "class C {", "end", "}", "else", "", "timeline"}

\* the default options, an indentSize of 0 and tabs
TotalOptions ==
    {NoOptions, [indentSize |-> <<0>>, useTabs |-> <<>>],
     [indentSize |-> <<2>>, useTabs |-> <<TRUE>>]}

InitTotal ==
    \E t \in Texts(VocabTotal, MaxLines), o \in TotalOptions : InitWith(t, o)

SpecTotal == InitTotal /\ [][Next]_vars

\* number of lines of a text
LineCount(text) ==
    1 + Cardinality({i \in 1..Len(text) : Ch(text, i) = "\n"})

\* a bound on the steps formatMermaid has still to take: one per line left
\* to parse, one per statement left to format, one for each call and return
StepsLeft ==
    CASE pc = "start"  -> 2 * LineCount(input) + 3
      [] pc = "parse"  -> (Len(plines) - pi + 1) + Len(plines) + 2
      [] pc = "format" -> (Len(statements) - fi + 1) + 1
      [] pc = "done"   -> 0

InitParseWith(text, o) ==
    /\ input = text
    /\ options = o
    /\ pc = "parse"
    /\ call = 0
    /\ input0 = text
    /\ output1 = ""
    /\ plines = Split(text)
    /\ pi = 1
    /\ statements = <<>>
    /\ diagramType = "unknown"
    /\ openBlocks = <<>>
    /\ lines = <<>>
    /\ fi = 1
    /\ braceBlockDepth = 0
    /\ seenDiagramDecl = FALSE
    /\ lastNonBlankType = "null"
    /\ depth = 0
    /\ output = ""
    /\ markdown = ""
    /\ mdpc = "none"
    /\ mdPos = 1
    /\ indent = ""
    /\ result = ""

InitDetect ==
    \E t \in Texts(VocabDecl, MaxLines) :
        InitWith(t, NoOptions) \/ InitParseWith(t, NoOptions)

SpecDetect == InitDetect /\ [][Next]_vars

\* the lines of the input that match a dialect signature
Declaring == {k \in 1..Len(plines) : matchDiagramType(Trim(plines[k])) # "null"}

\* C28: dialect detection agrees with parsing. When parse has read every
\* line of an input, indent-sensitive or not, the type of its Diagram is
\* detectDiagramType of that input, and both are the dialect of the first
\* line that matches a dialect signature (blank lines, comments and
\* directives match none), unknown when no line does.
C28_DetectAgrees ==
    ((pc = "parse" /\ pi > Len(plines)) \/ (pc = "format"))
        => /\ diagramType = detectDiagramType(input)
           /\ diagramType =
                (IF Declaring = {} THEN "unknown"
                 ELSE matchDiagramType(Trim(plines[Min(Declaring)])))
           /\ \A k \in Declaring :
                /\ Trim(plines[k]) # ""
                /\ ~StartsWith(Trim(plines[k]), "%%")

\* C28 witness: parse of a text whose declaration, of an indent-sensitive
\* dialect, follows a comment and a content line
C28_Witness ==
    /\ pc = "parse"
    /\ pi = 4
    /\ plines = <<"%% sequenceDiagram", "x", "timeline">>
    /\ diagramType = "timeline"
    /\ detectDiagramType(input) = "timeline"

\* the statements among 1..n that are not blank lines, in order
RECURSIVE Content(_)
Content(n) ==
    IF n = 0 THEN <<>>
    ELSE IF statements[n].type = "blank-line" THEN Content(n - 1)
    ELSE Append(Content(n - 1), statements[n])

\* C29: content lines are preserved in number and order. While format runs
\* on the Diagram parse returned, and in what it returns, the output lines
\* that are not blank are, in this order, the lines of the statements
\* formatted so far that are not blank-line statements, one line each: the
\* statement's text after its indentation, never empty; and a step of format
\* adds one such line for a statement that is not a blank-line, none for one
\* that is, and changes no line it has emitted.
C29_ContentPreserved ==
    [][(pc = "format" /\ pc' = "format")
        => LET out  == SelectSeq(lines', LAMBDA l : l # "")
               cont == Content(fi' - 1)
           IN  /\ Len(out) = Len(cont)
               /\ \A k \in 1..Len(out) :
                    /\ TrimStart(out[k]) = formatStatement(cont[k])
                    /\ Trim(out[k]) # ""
               /\ Len(lines') >= Len(lines)
               /\ SubSeq(lines', 1, Len(lines)) = lines
               /\ Len(SelectSeq(lines', LAMBDA l : l # ""))
                    = Len(SelectSeq(lines, LAMBDA l : l # ""))
                        + (IF statements[fi].type = "blank-line" THEN 0 ELSE 1)]_vars

\* C29 witness: three content statements gave their three lines in order,
\* with one blank line added before the opener
C29_Witness ==
    /\ pc = "done"
    /\ plines = <<"%% c", "x", "alt a">>
    /\ lines = <<"%% c", "x", "", "alt a">>
    /\ SelectSeq(lines, LAMBDA l : l # "") = <<"%% c", "x", "alt a">>

(***************************************************************************)
(* Input indentation: formatMermaid on a text, then on the same text with  *)
(* every line trimmed, with the same options                               *)
(***************************************************************************)

\* the lines, each trimmed
RECURSIVE TrimAll(_)
TrimAll(ls) == IF ls = <<>> THEN <<>> ELSE <<Trim(Head(ls))>> \o TrimAll(Tail(ls))

\* the caller formats the text again after trimming each of its lines:
\* formatMermaid(x.split('\n').map(l => l.trim()).join('\n'), o)
Retrim ==
    /\ pc = "done"
    /\ call = 1
    /\ output1' = output
    /\ input' = Join(TrimAll(Split(input0)))
    /\ call' = 2
    /\ pc' = "start"
    /\ output' = ""
    /\ UNCHANGED mdvars
    /\ UNCHANGED <<options, input0, plines, pi, statements, diagramType,
                   openBlocks, lines, fi, braceBlockDepth, seenDiagramDecl,
                   lastNonBlankType, depth>>

NextTrimmed == Next \/ Retrim

\* lines with and without leading and trailing whitespace
VocabTrimmed ==
    {"sequenceDiagram", " sequenceDiagram\t", "A->>B: hi", "  A->>B: hi ",
     "alt a", "\talt a", "", "  ", "timeline"}

\* the default options and tabs
TrimmedOptions == {NoOptions, [indentSize |-> <<>>, useTabs |-> <<TRUE>>]}

InitTrimmed ==
    \E t \in Texts(VocabTrimmed, MaxLines), o \in TrimmedOptions : InitWith(t, o)

SpecTrimmed == InitTrimmed /\ [][NextTrimmed]_vars

\* C30: output is independent of input indentation. For an input of a
\* dialect that is not indent-sensitive, formatMermaid returns what it
\* returns, with the same options, for the input whose lines are the trimmed
\* lines of the first; so two inputs whose lines are pairwise equal after
\* trimming, having the same trimmed input, get the same result.
C30_IndentIndependent ==
    (pc = "done" /\ call = 2 /\ ~isIndentSensitive(detectDiagramType(input0)))
        => /\ output = output1
           /\ Split(input) = TrimAll(Split(input0))

\* C30 witness: an input with indented lines and trailing whitespace and its
\* trimmed form, which differs from it, gave the same text
C30_Witness ==
    /\ pc = "done"
    /\ call = 2
    /\ input0 = " sequenceDiagram\t\n  A->>B: hi \n\talt a"
    /\ input = "sequenceDiagram\nA->>B: hi\nalt a"
    /\ output1 = "sequenceDiagram\n    A ->> B: hi\n\nalt a\n"
    /\ output = output1

====
